---- MODULE Spec2Model ----
(***************************************************************************)
(* LiquidCrystal_SR3W: HD44780 LCD driver behind a 3-wire latching shift   *)
(* register (LiquidCrystal_SR3W.cpp).  The driver object, its call stack,  *)
(* the shift register / latch / strobe line and the AVR interrupt flag are *)
(* the state; every hardware-visible step of send, setBacklightPin,        *)
(* setBacklight, write4bits and loadSR is an action.                       *)
(***************************************************************************)
EXTENDS Integers, Sequences, FiniteSets, TLC

VARIABLES
    cfg,        \* the constructor that was called and its arguments
    this,       \* the fields of the LiquidCrystal_SR3W object
    stack,      \* call stack, top frame first; <<>> when no operation runs
    op,         \* the public operation running or last run, with arguments
    shiftReg,   \* serial stage of the shift register (8 bits)
    latch,      \* parallel outputs of the shift register, seen by the LCD
    strobe,     \* level of the strobe line (0 low, 1 high)
    intEnabled, \* global interrupt flag of the MCU (SREG I bit)
    savedSREG,  \* interrupt flag saved by ATOMIC_BLOCK(ATOMIC_RESTORESTATE)
    loads,      \* bytes passed to loadSR by the operation in op, in order
    w4calls,    \* write4bits calls made by the operation in op, in order
    events,     \* line events of the current / last loadSR, in order
    isrStrobe,  \* strobe level seen by the last interrupt handler (2 = none)
    blReq,      \* last setBacklight request made with the backlight on bit 7
    blPins,     \* bit positions setBacklightPin has been called with so far
    intAtCall,  \* interrupt flag at the moment loadSR was last called
    enEdges     \* edges of the latched Enable output during the operation in op

vars == << cfg, this, stack, op, shiftReg, latch, strobe, intEnabled,
           savedSREG, loads, w4calls, events, isrStrobe, blReq, blPins, intAtCall, enEdges >>

(***************************************************************************)
(* Bounds of the model.                                                    *)
(***************************************************************************)
NumValues   == 2     \* how many sample bytes send is called with
NumMappings == 1     \* how many custom pin mappings are constructed
MaxLevel    == 1     \* setBacklight levels are 0..MaxLevel

(***************************************************************************)
(* Constants of the source.                                                *)
(***************************************************************************)
LCD_NOBACKLIGHT == 0
LCD_BACKLIGHT   == 255
EN == 4
RW == 5
RS == 6
D4 == 0
D5 == 1
D6 == 2
D7 == 3
\* LCD.h (send modes, backlight polarity)
COMMAND   == 0
DATA      == 1
FOUR_BITS == 2
POSITIVE  == "POSITIVE"
NEGATIVE  == "NEGATIVE"

(***************************************************************************)
(* uint8_t arithmetic.                                                     *)
(***************************************************************************)
Bit(x, i) == (x \div (2^i)) % 2

FromBits(f) == f[0] + 2*f[1] + 4*f[2] + 8*f[3]
               + 16*f[4] + 32*f[5] + 64*f[6] + 128*f[7]

BitOr(a, b) ==
    FromBits([i \in 0..7 |-> IF Bit(a, i) = 1 \/ Bit(b, i) = 1 THEN 1 ELSE 0])

BitAnd(a, b) ==
    FromBits([i \in 0..7 |-> IF Bit(a, i) = 1 /\ Bit(b, i) = 1 THEN 1 ELSE 0])

BitNot(a) == 255 - a

\* ( 1 << n ) stored in a uint8_t field
Shl1(n) == (2^n) % 256

(***************************************************************************)
(* Platform fast-I/O layer (FastIO): pin number -> port bit / port.        *)
(***************************************************************************)
fio_pinToBit(pin) == 2^(pin % 8)

fio_pinToOutputRegister(pin) == IF pin < 8 THEN "PORTD" ELSE "PORTB"

(***************************************************************************)
(* Construction.                                                           *)
(***************************************************************************)
init(data, clk, strobePin, Rs, Rw, En, d4, d5, d6, d7) ==
    [ _data       |-> fio_pinToBit(data),
      _clk        |-> fio_pinToBit(clk),
      _strobe     |-> fio_pinToBit(strobePin),
      _data_reg   |-> fio_pinToOutputRegister(data),
      _clk_reg    |-> fio_pinToOutputRegister(clk),
      _strobe_reg |-> fio_pinToOutputRegister(strobePin),
      _backlightPinMask |-> 0,
      _backlightStsMask |-> LCD_NOBACKLIGHT,
      _polarity   |-> POSITIVE,
      _En         |-> Shl1(En),
      _Rw         |-> Shl1(Rw),
      _Rs         |-> Shl1(Rs),
      _data_pins  |-> [i \in 0..3 |-> Shl1(<<d4, d5, d6, d7>>[i + 1])],
      _displayfunction |-> {"LCD_4BITMODE", "LCD_1LINE", "LCD_5x10DOTS"} ]

\* LiquidCrystal_SR3W(data, clk, strobe)
Ctor_default(data, clk, strobePin) ==
    init(data, clk, strobePin, RS, RW, EN, D4, D5, D6, D7)

\* LiquidCrystal_SR3W(data, clk, strobe, backlighPin, pol)
Ctor_default_backlight(data, clk, strobePin, backlighPin, pol) ==
    init(data, clk, strobePin, RS, RW, EN, D4, D5, D6, D7)

\* LiquidCrystal_SR3W(data, clk, strobe, En, Rw, Rs, d4, d5, d6, d7)
Ctor_custom(data, clk, strobePin, En, Rw, Rs, d4, d5, d6, d7) ==
    init(data, clk, strobePin, En, Rw, En, d4, d5, d6, d7)

\* LiquidCrystal_SR3W(data, clk, strobe, En, Rw, Rs, d4..d7, backlighPin, pol)
Ctor_custom_backlight(data, clk, strobePin, En, Rw, Rs, d4, d5, d6, d7, backlighPin, pol) ==
    init(data, clk, strobePin, En, Rw, En, d4, d5, d6, d7)

Construct(c) ==
    CASE c.ctor = "default" ->
           Ctor_default(c.data, c.clk, c.strobe)
      [] c.ctor = "default_backlight" ->
           Ctor_default_backlight(c.data, c.clk, c.strobe, c.backlighPin, c.pol)
      [] c.ctor = "custom" ->
           Ctor_custom(c.data, c.clk, c.strobe, c.En, c.Rw, c.Rs,
                       c.d4, c.d5, c.d6, c.d7)
      [] c.ctor = "custom_backlight" ->
           Ctor_custom_backlight(c.data, c.clk, c.strobe, c.En, c.Rw, c.Rs,
                                 c.d4, c.d5, c.d6, c.d7, c.backlighPin, c.pol)

(***************************************************************************)
(* Inputs the operations are called with.                                  *)
(***************************************************************************)
Polarities == {POSITIVE, NEGATIVE}

Modes == {FOUR_BITS, COMMAND, DATA}

\* sample bytes with different high and low nibbles: 0xA5, 0x4A, 0xEF, ...
ValueAt(k) == (165 * k) % 256

Values == {ValueAt(k) : k \in 1..NumValues}

Levels == 0..MaxLevel

\* bit positions offered to setBacklightPin
BacklightPins == {6, 7}

\* k-th custom mapping: signal number s (En, Rw, Rs, d4..d7 = 0..6) sits at
\* position ((2k+1)*s + k) mod 8, a permutation of 0..7; position of s = 7
\* is the one output left free for the backlight.
MapPos(k, s) == ((2 * k + 1) * s + k) % 8

DefaultArgs == [En |-> EN, Rw |-> RW, Rs |-> RS,
                d4 |-> D4, d5 |-> D5, d6 |-> D6, d7 |-> D7, free |-> 7]

CustomArgs(k) == [En |-> MapPos(k, 0), Rw |-> MapPos(k, 1), Rs |-> MapPos(k, 2),
                  d4 |-> MapPos(k, 3), d5 |-> MapPos(k, 4),
                  d6 |-> MapPos(k, 5), d7 |-> MapPos(k, 6),
                  free |-> MapPos(k, 7)]

MkCfg(ctor, a, blPin, pol) ==
    [ ctor |-> ctor, data |-> 2, clk |-> 3, strobe |-> 4,
      En |-> a.En, Rw |-> a.Rw, Rs |-> a.Rs,
      d4 |-> a.d4, d5 |-> a.d5, d6 |-> a.d6, d7 |-> a.d7,
      backlighPin |-> blPin, pol |-> pol ]

Configs ==
    { MkCfg("default", DefaultArgs, 0, POSITIVE) }
    \cup { MkCfg("default_backlight", DefaultArgs, DefaultArgs.free, p)
           : p \in Polarities }
    \cup { MkCfg("custom", CustomArgs(k), 0, POSITIVE) : k \in 1..NumMappings }
    \cup { MkCfg("custom_backlight", CustomArgs(k), CustomArgs(k).free, p)
           : k \in 1..NumMappings, p \in Polarities }

(***************************************************************************)
(* write4bits: composition of the shift-register byte.                     *)
(***************************************************************************)
RECURSIVE MapLoop(_, _, _, _)
MapLoop(t, value, i, pinMapValue) ==
    IF i >= 4 THEN pinMapValue
    ELSE MapLoop(t, value \div 2, i + 1,
                 IF value % 2 = 1 THEN BitOr(pinMapValue, t._data_pins[i])
                                  ELSE pinMapValue)

\* "Is it a command or data": DATA is replaced by the Rs mask
ModeBits_RwMask(t, mode) == IF mode = DATA THEN t._Rw ELSE mode

ModeBits(t, mode) == IF mode = DATA THEN t._Rs ELSE mode

PinMapValue_NoBacklight(t, value, mode) ==
    BitOr(MapLoop(t, value, 0, 0), ModeBits(t, mode))

PinMapValue(t, value, mode) ==
    BitOr(MapLoop(t, value, 0, 0), BitOr(ModeBits(t, mode), t._backlightStsMask))

EnableHigh_NoEnable(t, pinMapValue) == pinMapValue

EnableHigh(t, pinMapValue) == BitOr(pinMapValue, t._En)

EnableLow_NoInvert(t, pinMapValue) == BitAnd(pinMapValue, t._En)

EnableLow(t, pinMapValue) == BitAnd(pinMapValue, BitNot(t._En))

(***************************************************************************)
(* Call frames.                                                            *)
(***************************************************************************)
LoadSRFrame_NoShift(value) ==
    [fn |-> "loadSR", pc |-> "strobe_high", value |-> value, i |-> 0]

LoadSRFrame(value) == [fn |-> "loadSR", pc |-> "shift", value |-> value, i |-> 0]

\* write4bits(value, mode) runs up to its first loadSR call
CallWrite4bits(t, value, mode, rest) ==
    LET pmv == PinMapValue(t, value, mode)
    IN  << LoadSRFrame(EnableHigh(t, pmv)),
           [fn |-> "write4bits", pc |-> "hi", pinMapValue |-> pmv] >> \o rest

\* the write4bits calls of send(value, mode), in order
SendCalls_LowFirst(value, mode) ==
    IF mode = FOUR_BITS
    THEN << [value |-> BitAnd(value, 15), mode |-> COMMAND] >>
    ELSE << [value |-> BitAnd(value, 15), mode |-> mode],
            [value |-> value \div 16, mode |-> mode] >>

SendCalls(value, mode) ==
    IF mode = FOUR_BITS
    THEN << [value |-> BitAnd(value, 15), mode |-> COMMAND] >>
    ELSE << [value |-> value \div 16, mode |-> mode],
            [value |-> BitAnd(value, 15), mode |-> mode] >>

\* setBacklight: the new status mask
BacklightStatus_AllBits(t, value) ==
    IF (t._polarity = POSITIVE /\ value > 0)
       \/ (t._polarity = NEGATIVE /\ value = 0)
    THEN LCD_BACKLIGHT
    ELSE LCD_NOBACKLIGHT

BacklightStatus(t, value) ==
    IF (t._polarity = POSITIVE /\ value > 0)
       \/ (t._polarity = NEGATIVE /\ value = 0)
    THEN BitAnd(t._backlightPinMask, LCD_BACKLIGHT)
    ELSE BitAnd(t._backlightPinMask, LCD_NOBACKLIGHT)

\* setBacklightPin: the fields it writes
SetBacklightPinFields_ResetsStatus(t, value, pol) ==
    [t EXCEPT !._backlightPinMask = Shl1(value), !._polarity = pol,
              !._backlightStsMask = LCD_NOBACKLIGHT]

SetBacklightPinFields_WritesEn(t, value, pol) ==
    [t EXCEPT !._En = Shl1(value), !._polarity = pol]

SetBacklightPinFields(t, value, pol) ==
    [t EXCEPT !._backlightPinMask = Shl1(value), !._polarity = pol]

\* "Check if backlight is available"
BacklightAvailable_Always(t) == TRUE

BacklightAvailable(t) == t._backlightPinMask # 0

\* bit order handed to fio_shiftOut by loadSR
BitOrder_Lsb == "LSBFIRST"

BitOrder == "MSBFIRST"

\* fio_shiftOut: the bit put on the data line at clock pulse i (0..7)
fio_shiftOut_bit(value, i, bitOrder) ==
    IF bitOrder = "MSBFIRST" THEN Bit(value, 7 - i) ELSE Bit(value, i)

\* ATOMIC_BLOCK(ATOMIC_RESTORESTATE): interrupt flag inside / after the block
AtomicEnter_NoCli(sreg) == sreg

AtomicEnter(sreg) == FALSE

AtomicExit_ForceOn(saved) == TRUE

AtomicExit(saved) == saved

\* the two waits of loadSR, in microseconds
StrobeUsec == 1
SettleUsec == 40

(***************************************************************************)
(* Initial state: a constructed driver, no I/O issued yet.                 *)
(***************************************************************************)
PowerOn == {0, 255}

NoRequest == [valid |-> FALSE, level |-> 0, pol |-> POSITIVE]

\* edge record at the start of an operation: no edge seen yet
NoEdges(out, en) == [startLow |-> Bit(out, en) = 0, rises |-> 0, falls |-> << >>]

\* what the LCD sees on RS and D7..D4 of the outputs out
LcdSample(out, c) ==
    [rs |-> Bit(out, c.Rs),
     d  |-> Bit(out, c.d4) + 2 * Bit(out, c.d5)
            + 4 * Bit(out, c.d6) + 8 * Bit(out, c.d7)]

\* the outputs change from old to new: record an edge of the Enable output
EdgeUpdate(e, old, new, c) ==
    IF Bit(old, c.En) = 0 /\ Bit(new, c.En) = 1
    THEN [e EXCEPT !.rises = @ + 1]
    ELSE IF Bit(old, c.En) = 1 /\ Bit(new, c.En) = 0
         THEN [e EXCEPT !.falls = Append(@, LcdSample(new, c))]
         ELSE e

Init ==
    /\ cfg \in Configs
    /\ this = Construct(cfg)
    /\ stack = << >>
    /\ op = [name |-> "none", value |-> 0, mode |-> COMMAND]
    /\ shiftReg \in PowerOn
    /\ latch \in PowerOn
    /\ strobe = 0
    /\ intEnabled \in BOOLEAN
    /\ savedSREG = intEnabled
    /\ loads = << >>
    /\ w4calls = << >>
    /\ events = << >>
    /\ isrStrobe = 2
    /\ blReq = NoRequest
    /\ blPins = {}
    /\ intAtCall = intEnabled
    /\ enEdges = NoEdges(latch, cfg.En)

Idle == stack = << >>

Top == stack[1]

InLoadSR(pc) == stack # << >> /\ Top.fn = "loadSR" /\ Top.pc = pc

SetTop(f) == << f >> \o Tail(stack)

(***************************************************************************)
(* Public operations.                                                      *)
(***************************************************************************)
Send(value, mode) ==
    /\ Idle
    /\ LET calls == SendCalls(value, mode)
           frame == [fn |-> "send", pc |-> 1, value |-> value, mode |-> mode]
           stk   == CallWrite4bits(this, calls[1].value, calls[1].mode, <<frame>>)
       IN  /\ stack' = stk
           /\ w4calls' = << calls[1] >>
           /\ loads' = << stk[1].value >>
    /\ op' = [name |-> "send", value |-> value, mode |-> mode]
    /\ events' = << >>
    /\ intAtCall' = intEnabled
    /\ enEdges' = NoEdges(latch, cfg.En)
    /\ UNCHANGED << cfg, this, shiftReg, latch, strobe, intEnabled, savedSREG,
                    isrStrobe, blReq, blPins >>

SetBacklightPin(value, pol) ==
    /\ Idle
    /\ this' = SetBacklightPinFields(this, value, pol)
    /\ op' = [name |-> "setBacklightPin", value |-> value, mode |-> COMMAND]
    /\ loads' = << >>
    /\ w4calls' = << >>
    /\ blPins' = blPins \cup {value}
    /\ enEdges' = NoEdges(latch, cfg.En)
    /\ UNCHANGED << cfg, stack, shiftReg, latch, strobe, intEnabled, savedSREG,
                    events, isrStrobe, blReq, intAtCall >>

SetBacklight(value) ==
    /\ Idle
    /\ op' = [name |-> "setBacklight", value |-> value, mode |-> COMMAND]
    /\ w4calls' = << >>
    /\ IF BacklightAvailable(this)
       THEN LET sts == BacklightStatus(this, value)
            IN  /\ this' = [this EXCEPT !._backlightStsMask = sts]
                /\ stack' = << LoadSRFrame(sts),
                               [fn |-> "setBacklight", pc |-> "load"] >>
                /\ loads' = << sts >>
                /\ events' = << >>
                /\ intAtCall' = intEnabled
                /\ blReq' = IF this._backlightPinMask = Shl1(7)
                            THEN [valid |-> TRUE, level |-> value,
                                  pol |-> this._polarity]
                            ELSE NoRequest
       ELSE /\ loads' = << >>
            /\ UNCHANGED << this, stack, events, blReq, intAtCall >>
    /\ enEdges' = NoEdges(latch, cfg.En)
    /\ UNCHANGED << cfg, shiftReg, latch, strobe, intEnabled, savedSREG,
                    isrStrobe, blPins >>

(***************************************************************************)
(* loadSR, step by step.                                                   *)
(***************************************************************************)
Ev(e, a) == [ev |-> e, arg |-> a]

ShiftBit ==
    /\ InLoadSR("shift")
    /\ LET b == fio_shiftOut_bit(Top.value, Top.i, BitOrder)
       IN  /\ shiftReg' = (2 * shiftReg + b) % 256
           /\ events' = Append(events, Ev("bit", b))
    /\ stack' = SetTop([Top EXCEPT !.i = @ + 1,
                                   !.pc = IF Top.i + 1 = 8 THEN "strobe_high"
                                                           ELSE "shift"])
    /\ UNCHANGED << cfg, this, op, latch, strobe, intEnabled, savedSREG,
                    loads, w4calls, isrStrobe, blReq, blPins, intAtCall, enEdges >>

StrobeHigh ==
    /\ InLoadSR("strobe_high")
    /\ savedSREG' = intEnabled
    /\ intEnabled' = AtomicEnter(intEnabled)
    /\ strobe' = 1
    /\ latch' = shiftReg
    /\ events' = Append(events, Ev("strobe", 1))
    /\ stack' = SetTop([Top EXCEPT !.pc = "wait_strobe"])
    /\ enEdges' = EdgeUpdate(enEdges, latch, shiftReg, cfg)
    /\ UNCHANGED << cfg, this, op, shiftReg, loads, w4calls, isrStrobe, blReq,
                    blPins, intAtCall >>

WaitStrobe ==
    /\ InLoadSR("wait_strobe")
    /\ events' = Append(events, Ev("wait", StrobeUsec))
    /\ stack' = SetTop([Top EXCEPT !.pc = "strobe_low"])
    /\ UNCHANGED << cfg, this, op, shiftReg, latch, strobe, intEnabled,
                    savedSREG, loads, w4calls, isrStrobe, blReq, blPins, intAtCall, enEdges >>

StrobeLow ==
    /\ InLoadSR("strobe_low")
    /\ strobe' = 0
    /\ intEnabled' = AtomicExit(savedSREG)
    /\ events' = Append(events, Ev("strobe", 0))
    /\ stack' = SetTop([Top EXCEPT !.pc = "settle"])
    /\ UNCHANGED << cfg, this, op, shiftReg, latch, savedSREG, loads, w4calls,
                    isrStrobe, blReq, blPins, intAtCall, enEdges >>

WaitSettle ==
    /\ InLoadSR("settle")
    /\ events' = Append(events, Ev("wait", SettleUsec))
    /\ stack' = SetTop([Top EXCEPT !.pc = "ret"])
    /\ UNCHANGED << cfg, this, op, shiftReg, latch, strobe, intEnabled,
                    savedSREG, loads, w4calls, isrStrobe, blReq, blPins, intAtCall, enEdges >>

\* loadSR returns; its caller runs on to its next loadSR call or to its end
LoadSRReturn ==
    /\ InLoadSR("ret")
    /\ LET caller == stack[2]
           rest   == Tail(Tail(stack))
       IN  CASE caller.fn = "write4bits" /\ caller.pc = "hi" ->
                  LET v == EnableLow(this, caller.pinMapValue)
                  IN  /\ stack' = << LoadSRFrame(v),
                                     [caller EXCEPT !.pc = "lo"] >> \o rest
                      /\ loads' = Append(loads, v)
                      /\ events' = << >>
                      /\ w4calls' = w4calls
             [] caller.fn = "write4bits" /\ caller.pc = "lo" ->
                  LET snd   == rest[1]
                      calls == SendCalls(snd.value, snd.mode)
                  IN  IF snd.pc < Len(calls)
                      THEN LET c   == calls[snd.pc + 1]
                               stk == CallWrite4bits(this, c.value, c.mode,
                                        << [snd EXCEPT !.pc = @ + 1] >>)
                           IN  /\ stack' = stk
                               /\ w4calls' = Append(w4calls, c)
                               /\ loads' = Append(loads, stk[1].value)
                               /\ events' = << >>
                      ELSE /\ stack' = << >>
                           /\ UNCHANGED << w4calls, loads, events >>
             [] caller.fn = "setBacklight" ->
                  /\ stack' = << >>
                  /\ UNCHANGED << w4calls, loads, events >>
    /\ intAtCall' = IF stack' # << >> THEN intEnabled ELSE intAtCall
    /\ UNCHANGED << cfg, this, op, shiftReg, latch, strobe, intEnabled,
                    savedSREG, isrStrobe, blReq, blPins, enEdges >>

\* an interrupt handler runs (only while interrupts are enabled)
Interrupt ==
    /\ intEnabled
    /\ isrStrobe' = strobe
    /\ UNCHANGED << cfg, this, stack, op, shiftReg, latch, strobe, intEnabled,
                    savedSREG, loads, w4calls, events, blReq, blPins, intAtCall, enEdges >>

Next ==
    \/ \E value \in Values, mode \in Modes : Send(value, mode)
    \/ \E value \in BacklightPins, pol \in Polarities : SetBacklightPin(value, pol)
    \/ \E value \in Levels : SetBacklight(value)
    \/ ShiftBit
    \/ StrobeHigh
    \/ WaitStrobe
    \/ StrobeLow
    \/ WaitSettle
    \/ LoadSRReturn
    \/ Interrupt

Spec == Init /\ [][Next]_vars

(***************************************************************************)
(* Vocabulary of the properties.                                           *)
(***************************************************************************)
\* the seven bit positions the constructor was given for the LCD signals
CfgPositions == {cfg.En, cfg.Rw, cfg.Rs, cfg.d4, cfg.d5, cfg.d6, cfg.d7}

CfgData(i) == << cfg.d4, cfg.d5, cfg.d6, cfg.d7 >>[i + 1]

DefaultMapping == cfg.ctor \in {"default", "default_backlight"}

BacklightCtor == cfg.ctor \in {"default_backlight", "custom_backlight"}

\* every backlight position configured so far differs from the LCD positions
BacklightDistinct == blPins \cap CfgPositions = {}

\* the write4bits call that issued the l-th load of a send
CallOfLoad(l) == w4calls[(l + 1) \div 2]

\* the backlight is asserted for this level under this polarity
Asserted(pol, level) ==
    (pol = POSITIVE /\ level > 0) \/ (pol = NEGATIVE /\ level = 0)

(***************************************************************************)
(* C1: the bytes write4bits(v, mode) loads carry bit i of v at the         *)
(* configured position of D(4+i), and carry the bit at the configured      *)
(* Register-Select position iff mode = DATA, for all four constructors.    *)
(***************************************************************************)
C1_NibbleAndRsAtConfiguredPositions ==
    (op.name = "send" /\ BacklightDistinct) =>
        \A l \in DOMAIN loads :
            /\ \A i \in 0..3 :
                 Bit(loads[l], CfgData(i)) = Bit(CallOfLoad(l).value, i)
            /\ (Bit(loads[l], cfg.Rs) = 1) <=> (CallOfLoad(l).mode = DATA)

(***************************************************************************)
(* C2: every write4bits call issues exactly two loads, the first with the  *)
(* Enable bit set, the second with it cleared and otherwise the same byte. *)
(***************************************************************************)
C2_EnablePulseTwoLoads ==
    op.name = "send" =>
        /\ Len(loads) \in {2 * Len(w4calls) - 1, 2 * Len(w4calls)}
        /\ Idle => Len(loads) = 2 * Len(w4calls)
        /\ \A l \in DOMAIN loads :
             IF l % 2 = 1
             THEN Bit(loads[l], cfg.En) = 1
             ELSE /\ Bit(loads[l], cfg.En) = 0
                  /\ \A b \in (0..7) \ {cfg.En} :
                       Bit(loads[l], b) = Bit(loads[l - 1], b)

C2_Witness ==
    /\ Idle /\ op.name = "send" /\ op.mode = DATA
    /\ Len(loads) = 4
    /\ loads[3] # loads[1]
    /\ loads[4] = loads[3] - 2^cfg.En

(***************************************************************************)
(* C3: send(v, mode) calls write4bits(v >> 4, mode) then                   *)
(* write4bits(v & 0x0F, mode) for COMMAND and DATA, and only               *)
(* write4bits(v & 0x0F, COMMAND) for FOUR_BITS; nothing else is loaded.    *)
(***************************************************************************)
C3_Expected ==
    IF op.mode = FOUR_BITS
    THEN << [value |-> op.value % 16, mode |-> COMMAND] >>
    ELSE << [value |-> op.value \div 16, mode |-> op.mode],
            [value |-> op.value % 16, mode |-> op.mode] >>

C3_SendCallSequence ==
    op.name = "send" =>
        /\ Len(w4calls) <= Len(C3_Expected)
        /\ \A j \in DOMAIN w4calls : w4calls[j] = C3_Expected[j]
        /\ Len(loads) <= 2 * Len(w4calls)
        /\ Idle => /\ w4calls = C3_Expected
                   /\ Len(loads) = 2 * Len(w4calls)

C3_Witness ==
    /\ Idle /\ op.name = "send" /\ op.mode = COMMAND /\ op.value = 165
    /\ w4calls = << [value |-> 10, mode |-> COMMAND],
                    [value |-> 5, mode |-> COMMAND] >>
    /\ Len(loads) = 4

(***************************************************************************)
(* C4: default mapping, backlight on bit 7: after setBacklight(level) bit  *)
(* 7 of every byte loaded is set iff (POSITIVE and level > 0) or           *)
(* (NEGATIVE and level = 0), until the next setBacklight.                  *)
(***************************************************************************)
C4_BacklightBitInEveryLoad ==
    (DefaultMapping /\ blReq.valid) =>
        \A l \in DOMAIN loads :
            (Bit(loads[l], 7) = 1) <=> Asserted(blReq.pol, blReq.level)

C4_Witness ==
    /\ DefaultMapping /\ blReq.valid
    /\ blReq.pol = NEGATIVE /\ blReq.level = 0
    /\ Idle /\ op.name = "send" /\ Len(loads) = 4
    /\ \A l \in DOMAIN loads : Bit(loads[l], 7) = 1

(***************************************************************************)
(* C5: with no backlight bit configured (pin mask zero) setBacklight       *)
(* issues no load and leaves status mask, pin mask and polarity unchanged. *)
(***************************************************************************)
C5_SetBacklightNoOpWithoutPin ==
    [][ ((\E value \in Levels : SetBacklight(value))
           /\ this._backlightPinMask = 0)
        => /\ this' = this
           /\ stack' = << >>
           /\ loads' = << >>
           /\ UNCHANGED << shiftReg, latch, strobe, events >> ]_vars

C5_Witness ==
    /\ op.name = "setBacklight" /\ op.value > 0
    /\ this._backlightPinMask = 0
    /\ Idle /\ loads = << >>

(***************************************************************************)
(* C6: every loadSR shifts out the 8 bits of its byte most significant bit *)
(* first, raises the strobe, waits at least 1 us, lowers the strobe and    *)
(* waits at least 40 us, each once and in this order; it returns only      *)
(* after the settle wait, so a following load starts shifting only after   *)
(* the previous load is complete.                                          *)
(***************************************************************************)
\* the byte of the loadSR call the events belong to (-1: not recorded)
C6_Value ==
    IF stack # << >> THEN Top.value
    ELSE IF loads # << >> THEN loads[Len(loads)] ELSE -1

C6_EventOk(k, e) ==
    CASE k <= 8 -> e.ev = "bit" /\ (C6_Value >= 0 => e.arg = Bit(C6_Value, 8 - k))
      [] k = 9  -> e = Ev("strobe", 1)
      [] k = 10 -> e.ev = "wait" /\ e.arg >= 1
      [] k = 11 -> e = Ev("strobe", 0)
      [] k = 12 -> e.ev = "wait" /\ e.arg >= 40
      [] OTHER  -> FALSE

\* number of events a loadSR frame at this position has produced
C6_Progress(f) ==
    CASE f.pc = "shift"       -> f.i
      [] f.pc = "strobe_high" -> 8
      [] f.pc = "wait_strobe" -> 9
      [] f.pc = "strobe_low"  -> 10
      [] f.pc = "settle"      -> 11
      [] f.pc = "ret"         -> 12

C6_LoadOrdered ==
    /\ \A k \in DOMAIN events : C6_EventOk(k, events[k])
    /\ Idle => Len(events) \in {0, 12}
    /\ stack # << >> => /\ Top.fn = "loadSR"
                        /\ Len(events) = C6_Progress(Top)

C6_LoadSRSequence ==
    /\ []C6_LoadOrdered
    /\ [][ (events' = << >> /\ events # << >>) => Len(events) = 12 ]_vars

C6_Witness ==
    /\ InLoadSR("ret")
    /\ Top.value = 90
    /\ Len(events) = 12
    /\ Len(loads) = 1

(***************************************************************************)
(* C7: whenever the strobe line is high interrupts are disabled, so no     *)
(* interrupt handler runs between the rising and the falling strobe edge.  *)
(***************************************************************************)
C7_StrobeHighAtomic ==
    /\ strobe = 1 => ~intEnabled
    /\ isrStrobe # 1

C7_Witness ==
    /\ strobe = 1
    /\ savedSREG
    /\ isrStrobe = 0
    /\ InLoadSR("strobe_low")

(***************************************************************************)
(* C8: after construction the stored mask of every LCD signal is           *)
(* 1 << (the position passed for that signal), for the custom and the      *)
(* default constructors.                                                   *)
(***************************************************************************)
C8_MasksMatchPositions ==
    /\ this._En = 2^cfg.En
    /\ this._Rw = 2^cfg.Rw
    /\ this._Rs = 2^cfg.Rs
    /\ \A i \in 0..3 : this._data_pins[i] = 2^CfgData(i)

(***************************************************************************)
(* C9: a driver constructed with a backlight pin and polarity controls     *)
(* that bit: without any setBacklightPin call, setBacklight(level) issues  *)
(* a load whose bit backlighPin follows level under polarity pol.          *)
(***************************************************************************)
C9_CtorBacklightConfigured ==
    (BacklightCtor /\ blPins = {} /\ op.name = "setBacklight") =>
        /\ loads # << >>
        /\ (Bit(loads[1], cfg.backlighPin) = 1) <=> Asserted(cfg.pol, op.value)

(***************************************************************************)
(* C10: with pairwise distinct bit positions, the bit at the configured    *)
(* Read/Write position is 0 in every byte loaded by send and setBacklight. *)
(***************************************************************************)
C10_ReadWriteAlwaysLow ==
    BacklightDistinct =>
        \A l \in DOMAIN loads : Bit(loads[l], cfg.Rw) = 0

C10_Witness ==
    /\ BacklightDistinct /\ blPins # {}
    /\ this._backlightStsMask # 0
    /\ Idle /\ op.name = "send" /\ op.mode = DATA
    /\ Len(loads) = 4
    /\ \A l \in DOMAIN loads : loads[l] # 0

(***************************************************************************)
(* C11: setBacklightPin issues no load and leaves the backlight status     *)
(* bits alone: only the pin mask and the polarity change, and later sends  *)
(* keep carrying the stored status bits.                                   *)
(***************************************************************************)
C11_OtherFields(t) == [t EXCEPT !._backlightPinMask = 0, !._polarity = POSITIVE]

C11_SendCarriesStatus ==
    op.name = "send" =>
        \A l \in DOMAIN loads : \A b \in (0..7) \ {cfg.En} :
            Bit(this._backlightStsMask, b) = 1 => Bit(loads[l], b) = 1

C11_SetBacklightPinSilent ==
    /\ [][ (\E value \in BacklightPins, pol \in Polarities :
               SetBacklightPin(value, pol))
           => /\ stack' = << >>
              /\ loads' = << >>
              /\ this'._backlightStsMask = this._backlightStsMask
              /\ C11_OtherFields(this') = C11_OtherFields(this)
              /\ UNCHANGED << shiftReg, latch, strobe, events >> ]_vars
    /\ []C11_SendCarriesStatus

C11_Witness ==
    /\ Idle /\ op.name = "send" /\ Len(loads) = 4
    /\ this._backlightStsMask # 0
    /\ this._backlightPinMask # this._backlightStsMask
    /\ \A l \in DOMAIN loads :
         BitAnd(loads[l], this._backlightStsMask) = this._backlightStsMask

(***************************************************************************)
(* C12: with a backlight bit configured, setBacklight issues exactly one   *)
(* load, and the byte is the new status alone: 0 or the pin mask, so all   *)
(* seven LCD signals are 0 in it when the backlight position is distinct.  *)
(***************************************************************************)
C12_BacklightLoadOnlyStatus ==
    (op.name = "setBacklight" /\ this._backlightPinMask # 0) =>
        /\ Len(loads) = 1
        /\ loads[1] = this._backlightStsMask
        /\ loads[1] \in {0, this._backlightPinMask}
        /\ BacklightDistinct => \A b \in CfgPositions : Bit(loads[1], b) = 0

C12_Witness ==
    /\ Idle /\ op.name = "setBacklight"
    /\ BacklightDistinct
    /\ this._backlightPinMask # 0
    /\ loads = << this._backlightPinMask >>
    /\ latch = this._backlightPinMask

(***************************************************************************)
(* C13: no operation changes the masks of Enable, Read/Write,              *)
(* Register-Select, D4-D7 or the three line handles; send and write4bits   *)
(* (with the loadSR calls they make) change no field of the driver.        *)
(***************************************************************************)
C13_Immutable(t) ==
    << t._En, t._Rw, t._Rs, t._data_pins,
       t._data, t._clk, t._strobe, t._data_reg, t._clk_reg, t._strobe_reg >>

C13_MappingImmutable ==
    [][ /\ C13_Immutable(this') = C13_Immutable(this)
        /\ ((\E value \in Values, mode \in Modes : Send(value, mode))
              \/ (op.name = "send" /\ stack # << >>))
           => this' = this ]_vars

C13_Witness ==
    /\ Idle /\ op.name = "send" /\ Len(loads) = 4
    /\ this # Construct(cfg)
    /\ C13_Immutable(this) = C13_Immutable(Construct(cfg))

(***************************************************************************)
(* C14: loadSR leaves the interrupt flag as it found it: once the strobe   *)
(* pulse is over (settle wait, return) interrupts are enabled iff they     *)
(* were enabled when loadSR was called.                                    *)
(***************************************************************************)
C14_InterruptStateRestored ==
    /\ (InLoadSR("settle") \/ InLoadSR("ret")) => intEnabled = intAtCall
    /\ (Idle /\ loads # << >>) => intEnabled = intAtCall

C14_Witness ==
    /\ InLoadSR("ret")
    /\ ~intAtCall
    /\ ~intEnabled
    /\ Len(events) = 12

(***************************************************************************)
(* C15: default mapping, backlight on bit 7, latched Enable low at the     *)
(* start: the (RS, D7..D4) values at the falling edges of the latched      *)
(* Enable are exactly the nibbles of each send, in order; setBacklight     *)
(* makes no Enable edge; Enable is low whenever an operation has returned. *)
(***************************************************************************)
C15_Rs == IF op.mode = DATA THEN 1 ELSE 0

C15_Expected ==
    IF op.mode = FOUR_BITS
    THEN << [rs |-> 0, d |-> op.value % 16] >>
    ELSE << [rs |-> C15_Rs, d |-> op.value \div 16],
            [rs |-> C15_Rs, d |-> op.value % 16] >>

C15_EnableEdgesAreNibbles ==
    (DefaultMapping /\ blPins \subseteq {7} /\ enEdges.startLow) =>
        /\ Idle => Bit(latch, cfg.En) = 0
        /\ IF op.name = "send"
           THEN /\ Len(enEdges.falls) <= Len(C15_Expected)
                /\ \A j \in DOMAIN enEdges.falls :
                     enEdges.falls[j] = C15_Expected[j]
                /\ enEdges.rises \in {Len(enEdges.falls), Len(enEdges.falls) + 1}
                /\ Idle => /\ enEdges.falls = C15_Expected
                           /\ enEdges.rises = Len(C15_Expected)
           ELSE enEdges.rises = 0 /\ enEdges.falls = << >>

C15_Witness ==
    /\ DefaultMapping /\ blPins = {7} /\ enEdges.startLow
    /\ this._backlightStsMask # 0
    /\ Idle /\ op.name = "send" /\ op.mode = DATA /\ op.value = 165
    /\ enEdges.falls = << [rs |-> 1, d |-> 10], [rs |-> 1, d |-> 5] >>
    /\ enEdges.rises = 2

(***************************************************************************)
(* C16: the strobe line is low while bits are shifted and whenever an      *)
(* operation has returned; the latched outputs change only at a strobe     *)
(* rising edge after a complete 8-bit shift, to the whole byte of the      *)
(* load; every load makes exactly one strobe pulse.                        *)
(***************************************************************************)
C16_Count(e) == Cardinality({k \in DOMAIN events : events[k] = e})

C16_StrobeLowOutsidePulse ==
    /\ (InLoadSR("shift") \/ Idle) => strobe = 0
    /\ InLoadSR("ret") => /\ C16_Count(Ev("strobe", 1)) = 1
                          /\ C16_Count(Ev("strobe", 0)) = 1

C16_LatchAtomic ==
    /\ []C16_StrobeLowOutsidePulse
    /\ [][ latch' # latch
           => /\ InLoadSR("strobe_high")
              /\ Top.i = 8
              /\ strobe = 0 /\ strobe' = 1
              /\ latch' = Top.value ]_vars

C16_Witness ==
    /\ InLoadSR("wait_strobe")
    /\ strobe = 1
    /\ Len(loads) = 2
    /\ latch = loads[2]
    /\ latch # loads[1]

====
